---- MODULE Spec2Model ----
(***************************************************************************)
(* Model of Flipbook-Creator.py: the ImageGridWidget (ordered image list,  *)
(* selection, anchor, undo/redo stacks) and the FlipbookApp grid controls  *)
(* (columns / rows spin boxes and their minimum constraints).              *)
(*                                                                         *)
(* Indices are 0-based as in the Python source; the TLA+ sequence element  *)
(* at Python index i is s[i + 1].  An image entry (pixmap, filename,       *)
(* full_path) is modelled by a natural number naming the file.             *)
(***************************************************************************)
EXTENDS Integers, Sequences, FiniteSets, TLC

VARIABLES
    images,               \* ImageGridWidget.images
    selected_indices,     \* ImageGridWidget.selected_indices
    last_selected_index,  \* ImageGridWidget.last_selected_index (None when unset)
    history,              \* ImageGridWidget.history (the undo stack)
    redo_stack,           \* ImageGridWidget.redo_stack
    objects,              \* which list objects images and the snapshots are
    columns_input,        \* FlipbookApp.columns_input: [value, minimum, maximum]
    rows_input,           \* FlipbookApp.rows_input: [value, minimum, maximum]
    scale_slider,         \* FlipbookApp.scale_slider: its value, a percentage
    export_button,        \* FlipbookApp.export_button: whether it is enabled
    last                  \* the last call made and its arguments (trace variable)

widget_vars == <<images, selected_indices, last_selected_index, history, redo_stack,
                 objects>>
grid_vars == <<columns_input, rows_input>>
app_vars == <<scale_slider, export_button>>
vars == <<images, selected_indices, last_selected_index, history, redo_stack, objects,
          columns_input, rows_input, scale_slider, export_button, last>>

----------------------------------------------------------------------------
(* Bounds of the model *)

\* longest image list explored by Spec
MaxLen == 3

\* Spec lets a mutation push a snapshot only while the undo stack is this short
SnapshotDepths == {0}

\* the files that can be loaded or added
Entries == 1 .. MaxLen

\* longest image list explored by SpecCap, which appends one image at a time
CapLen == 52

\* longest image list explored by SpecGrid
GridMaxCount == 5

\* largest value SpecGrid lets the user enter into a spin box
GridMaxSpin == 4

\* the largest number of images loaded at once in SpecLoad
LoadMax == 17

\* the largest number of images in a folder of SpecExport and SpecCompose
ExportMaxCount == 4

\* the largest spin box value drawn in SpecCompose
ComposeMaxSpin == 3

\* the positions of the scale slider that are tried
ScaleValues == {1, 50, 58, 100}

----------------------------------------------------------------------------
(* Program constants *)

max_history == 50

None == -1

----------------------------------------------------------------------------
(* Python list and set primitives *)

Range(s) == {s[i] : i \in 1 .. Len(s)}

\* list.pop(idx) for 0 <= idx < len: the list without the element at idx
ListPop(s, idx) == SubSeq(s, 1, idx) \o SubSeq(s, idx + 2, Len(s))

\* mutant of ListInsert: the item overwrites the slot (images[idx] = x)
ListInsert_Overwrite(s, idx, x) ==
    IF idx < Len(s) THEN [s EXCEPT ![idx + 1] = x] ELSE Append(s, x)

\* list.insert(idx, x) for idx >= 0: x lands at idx, or at the end if idx > len
ListInsert(s, idx, x) ==
    LET at == IF idx > Len(s) THEN Len(s) ELSE idx
    IN  SubSeq(s, 1, at) \o <<x>> \o SubSeq(s, at + 1, Len(s))

Reversed(s) == [i \in 1 .. Len(s) |-> s[Len(s) + 1 - i]]

Max(S) == CHOOSE x \in S : \A y \in S : y <= x

\* sorted(S, reverse=True) of a set of integers
RECURSIVE SortedDescSet(_)
SortedDescSet(S) ==
    IF S = {} THEN <<>> ELSE <<Max(S)>> \o SortedDescSet(S \ {Max(S)})

\* sorted(list(S)) of a set of integers
SortedAscSet(S) == Reversed(SortedDescSet(S))

\* insertion of v into a descending list, before the first smaller element
RECURSIVE InsertDesc(_, _)
InsertDesc(s, v) ==
    IF s = <<>> THEN <<v>>
    ELSE IF v >= Head(s) THEN <<v>> \o s
    ELSE <<Head(s)>> \o InsertDesc(Tail(s), v)

\* sorted(lst, reverse=True) of a list of integers (duplicates kept)
RECURSIVE SortedDesc(_)
SortedDesc(s) ==
    IF s = <<>> THEN <<>> ELSE InsertDesc(SortedDesc(Tail(s)), Head(s))

----------------------------------------------------------------------------
(* Drag-and-drop text: indices_str is a comma separated text.  Each piece   *)
(* between commas is a token; int(token) either yields a number or raises   *)
(* ValueError.  The empty text splits into one empty token, which raises.   *)

NumTok(n) == [num |-> TRUE, val |-> n]
BadTok == [num |-> FALSE, val |-> 0]

\* ','.join(map(str, selected)) followed by split(','), for a sorted list
JoinIndices(lst) ==
    IF lst = <<>> THEN <<BadTok>> ELSE [i \in 1 .. Len(lst) |-> NumTok(lst[i])]

\* no int(token) raises
ParseOK(indices_str) == \A i \in 1 .. Len(indices_str) : indices_str[i].num

ParsedIndices(indices_str) == [i \in 1 .. Len(indices_str) |-> indices_str[i].val]

----------------------------------------------------------------------------
(* ImageGridWidget: undo history *)

\* mutant of save_state: the history is not capped
SaveStateHistory_NoCap(imgs, hist) == Append(hist, imgs)

\* mutant of SaveStateHistory: a full history discards the new snapshot
SaveStateHistory_DropsNewest(imgs, hist) ==
    IF Len(hist) >= max_history THEN hist ELSE Append(hist, imgs)

\* save_state: the history after pushing a copy of imgs, capped at max_history
SaveStateHistory(imgs, hist) ==
    LET pushed == Append(hist, imgs)
    IN  IF Len(pushed) > max_history THEN Tail(pushed) ELSE pushed

\* list.pop() of a non-empty stack: the element returned
StackTop(stack) == stack[Len(stack)]

\* list.pop() of a non-empty stack: the stack left behind
StackRest(stack) == SubSeq(stack, 1, Len(stack) - 1)

(* ImageGridWidget: the list objects.  self.images is a Python list that    *)
(* extend, pop and insert change in place, and a snapshot on a stack is a    *)
(* list object as well.  objects names the object behind self.images and     *)
(* the object behind every snapshot by a number; equal numbers are one and   *)
(* the same list.  The numbers are kept in a normal form: every object is    *)
(* named by the first place it is met at, going through self.images, then    *)
(* history, then redo_stack.                                                 *)

\* the objects in the order self.images, history, redo_stack
ObjectList(o) == <<o.images>> \o o.history \o o.redo_stack

\* the normal form of o
NormalObjects(o) ==
    LET all == ObjectList(o)
        first(i) == CHOOSE j \in 1 .. i :
                        all[j] = all[i] /\ \A k \in 1 .. j - 1 : all[k] # all[i]
        h == Len(o.history)
    IN  [images |-> 1,
         history |-> [i \in 1 .. h |-> first(i + 1)],
         redo_stack |-> [i \in 1 .. Len(o.redo_stack) |-> first(i + 1 + h)]]

\* an object that is none of those named in o: a list just built
NewObject(o) == Len(ObjectList(o)) + 1

\* mutant of save_state_objects: self.images itself is appended, not a copy
save_state_objects_NoCopy ==
    LET pushed == Append(objects.history, objects.images)
    IN  NormalObjects([images |-> objects.images,
                       history |-> IF Len(pushed) > max_history
                                   THEN Tail(pushed) ELSE pushed,
                       redo_stack |-> <<>>])

\* save_state: state = [img for img in self.images] is a new list
save_state_objects ==
    LET pushed == Append(objects.history, NewObject(objects))
    IN  NormalObjects([images |-> objects.images,
                       history |-> IF Len(pushed) > max_history
                                   THEN Tail(pushed) ELSE pushed,
                       redo_stack |-> <<>>])

\* undo: a new list goes onto redo_stack, self.images becomes the list popped
undo_objects ==
    NormalObjects([images |-> StackTop(objects.history),
                   history |-> StackRest(objects.history),
                   redo_stack |-> Append(objects.redo_stack, NewObject(objects))])

\* redo: a new list goes onto history, self.images becomes the list popped
redo_objects ==
    NormalObjects([images |-> StackTop(objects.redo_stack),
                   history |-> Append(objects.history, NewObject(objects)),
                   redo_stack |-> StackRest(objects.redo_stack)])

\* add_images: self.images becomes the caller's list, both stacks are emptied
add_images_objects == [images |-> 1, history |-> <<>>, redo_stack |-> <<>>]

\* mutant of undo: the restored state, not the current one, goes to redo_stack
undo_PushesRestored ==
    IF Len(history) > 0
    THEN /\ redo_stack' = Append(redo_stack, StackTop(history))
         /\ images' = StackTop(history)
         /\ history' = StackRest(history)
         /\ objects' = undo_objects
         /\ selected_indices' = {}
         /\ last_selected_index' = None
    ELSE UNCHANGED widget_vars

\* ImageGridWidget.undo
undo ==
    IF Len(history) > 0
    THEN /\ redo_stack' = Append(redo_stack, images)
         /\ images' = StackTop(history)
         /\ history' = StackRest(history)
         /\ objects' = undo_objects
         /\ selected_indices' = {}
         /\ last_selected_index' = None
    ELSE UNCHANGED widget_vars

\* mutant of redo: the selection is cleared even when there is nothing to redo
redo_ClearsSelection ==
    IF Len(redo_stack) > 0
    THEN /\ history' = Append(history, images)
         /\ images' = StackTop(redo_stack)
         /\ redo_stack' = StackRest(redo_stack)
         /\ objects' = redo_objects
         /\ selected_indices' = {}
         /\ last_selected_index' = None
    ELSE /\ selected_indices' = {}
         /\ last_selected_index' = None
         /\ UNCHANGED <<images, history, redo_stack, objects>>

\* ImageGridWidget.redo
redo ==
    IF Len(redo_stack) > 0
    THEN /\ history' = Append(history, images)
         /\ images' = StackTop(redo_stack)
         /\ redo_stack' = StackRest(redo_stack)
         /\ objects' = redo_objects
         /\ selected_indices' = {}
         /\ last_selected_index' = None
    ELSE UNCHANGED widget_vars

----------------------------------------------------------------------------
(* ImageGridWidget: loading *)

\* mutant of add_images: the undo history is kept
add_images_KeepsHistory(image_paths_and_pixmaps) ==
    /\ images' = image_paths_and_pixmaps
    /\ selected_indices' = {}
    /\ last_selected_index' = None
    /\ redo_stack' = <<>>
    /\ objects' = [add_images_objects EXCEPT !.history = objects.history]
    /\ UNCHANGED history

\* ImageGridWidget.add_images: replace all images with a new set
add_images(image_paths_and_pixmaps) ==
    /\ images' = image_paths_and_pixmaps
    /\ selected_indices' = {}
    /\ last_selected_index' = None
    /\ history' = <<>>
    /\ redo_stack' = <<>>
    /\ objects' = add_images_objects

\* mutant of append_images: the state is saved before the list is looked at
append_images_AlwaysSaves(image_paths_and_pixmaps) ==
    /\ history' = SaveStateHistory(images, history)
    /\ redo_stack' = <<>>
    /\ objects' = save_state_objects
    /\ images' = images \o image_paths_and_pixmaps
    /\ UNCHANGED <<selected_indices, last_selected_index>>

\* ImageGridWidget.append_images
append_images(image_paths_and_pixmaps) ==
    IF image_paths_and_pixmaps # <<>>
    THEN /\ history' = SaveStateHistory(images, history)
         /\ redo_stack' = <<>>
         /\ objects' = save_state_objects
         /\ images' = images \o image_paths_and_pixmaps
         /\ UNCHANGED <<selected_indices, last_selected_index>>
    ELSE UNCHANGED widget_vars

----------------------------------------------------------------------------
(* ImageGridWidget: selection *)

\* ImageGridWidget.clear_selection
clear_selection ==
    /\ selected_indices' = {}
    /\ UNCHANGED <<images, last_selected_index, history, redo_stack, objects>>

\* mutant of select_single: the index is added to the selection
select_single_Adds(index) ==
    /\ selected_indices' = selected_indices \cup {index}
    /\ last_selected_index' = index
    /\ UNCHANGED <<images, history, redo_stack, objects>>

\* ImageGridWidget.select_single
select_single(index) ==
    /\ selected_indices' = {index}
    /\ last_selected_index' = index
    /\ UNCHANGED <<images, history, redo_stack, objects>>

\* ImageGridWidget.toggle_selection
toggle_selection(index) ==
    /\ selected_indices' = IF index \in selected_indices
                           THEN selected_indices \ {index}
                           ELSE selected_indices \cup {index}
    /\ last_selected_index' = index
    /\ UNCHANGED <<images, history, redo_stack, objects>>

\* the span range(start, end + 1) of select_range
RangeSpan(anchor, index) ==
    LET start == IF anchor < index THEN anchor ELSE index
        end == IF anchor > index THEN anchor ELSE index
    IN  start .. end

\* mutant of select_range: the span replaces the selection
select_range_Replaces(index) ==
    IF last_selected_index = None
    THEN select_single(index)
    ELSE /\ selected_indices' = RangeSpan(last_selected_index, index)
         /\ UNCHANGED <<images, last_selected_index, history, redo_stack, objects>>

\* ImageGridWidget.select_range
select_range(index) ==
    IF last_selected_index = None
    THEN select_single(index)
    ELSE /\ selected_indices' =
                selected_indices \cup RangeSpan(last_selected_index, index)
         /\ UNCHANGED <<images, last_selected_index, history, redo_stack, objects>>

----------------------------------------------------------------------------
(* ImageGridWidget: delete *)

\* the loop of delete_selected: pop every index of the list that is in range
RECURSIVE DeleteLoop(_, _)
DeleteLoop(indices_to_delete, imgs) ==
    IF indices_to_delete = <<>> THEN imgs
    ELSE LET idx == Head(indices_to_delete)
         IN  DeleteLoop(Tail(indices_to_delete),
                        IF 0 <= idx /\ idx < Len(imgs) THEN ListPop(imgs, idx) ELSE imgs)

\* mutant of delete_selected: the anchor is left as it is
delete_selected_KeepsAnchor ==
    IF selected_indices = {}
    THEN UNCHANGED widget_vars
    ELSE /\ history' = SaveStateHistory(images, history)
         /\ redo_stack' = <<>>
         /\ objects' = save_state_objects
         /\ images' = DeleteLoop(SortedDescSet(selected_indices), images)
         /\ selected_indices' = {}
         /\ UNCHANGED last_selected_index

\* mutant of delete_selected: the indices are popped in ascending order
delete_selected_Ascending ==
    IF selected_indices = {}
    THEN UNCHANGED widget_vars
    ELSE /\ history' = SaveStateHistory(images, history)
         /\ redo_stack' = <<>>
         /\ objects' = save_state_objects
         /\ images' = DeleteLoop(SortedAscSet(selected_indices), images)
         /\ selected_indices' = {}
         /\ last_selected_index' = None

\* ImageGridWidget.delete_selected
delete_selected ==
    IF selected_indices = {}
    THEN UNCHANGED widget_vars
    ELSE /\ history' = SaveStateHistory(images, history)
         /\ redo_stack' = <<>>
         /\ objects' = save_state_objects
         /\ images' = DeleteLoop(SortedDescSet(selected_indices), images)
         /\ selected_indices' = {}
         /\ last_selected_index' = None

----------------------------------------------------------------------------
(* ImageGridWidget: drag-and-drop move *)

\* first loop of handle_drop: the images at the in-range source indices
RECURSIVE ImagesToMove(_, _)
ImagesToMove(source_indices, imgs) ==
    IF source_indices = <<>> THEN <<>>
    ELSE LET idx == Head(source_indices)
             rest == ImagesToMove(Tail(source_indices), imgs)
         IN  IF 0 <= idx /\ idx < Len(imgs) THEN <<imgs[idx + 1]>> \o rest ELSE rest

\* mutant of RemoveLoop: target_index is not adjusted
RECURSIVE RemoveLoop_KeepsTarget(_, _, _)
RemoveLoop_KeepsTarget(source_indices, imgs, target_index) ==
    IF source_indices = <<>> THEN [imgs |-> imgs, target_index |-> target_index]
    ELSE LET idx == Head(source_indices)
         IN  IF 0 <= idx /\ idx < Len(imgs)
             THEN RemoveLoop_KeepsTarget(Tail(source_indices), ListPop(imgs, idx),
                                         target_index)
             ELSE RemoveLoop_KeepsTarget(Tail(source_indices), imgs, target_index)

\* second loop of handle_drop: pop the source indices, tracking target_index
RECURSIVE RemoveLoop(_, _, _)
RemoveLoop(source_indices, imgs, target_index) ==
    IF source_indices = <<>> THEN [imgs |-> imgs, target_index |-> target_index]
    ELSE LET idx == Head(source_indices)
         IN  IF 0 <= idx /\ idx < Len(imgs)
             THEN RemoveLoop(Tail(source_indices), ListPop(imgs, idx),
                             IF idx < target_index THEN target_index - 1
                             ELSE target_index)
             ELSE RemoveLoop(Tail(source_indices), imgs, target_index)

\* third loop of handle_drop: insert each image of the list at target_index
RECURSIVE InsertLoop(_, _, _)
InsertLoop(to_insert, imgs, target_index) ==
    IF to_insert = <<>> THEN imgs
    ELSE InsertLoop(Tail(to_insert), ListInsert(imgs, target_index, Head(to_insert)),
                    target_index)

\* the images after the three loops of handle_drop
DroppedImages(source_indices, imgs, target_index) ==
    LET images_to_move == ImagesToMove(source_indices, imgs)
        removed == RemoveLoop(source_indices, imgs, target_index)
    IN  InsertLoop(Reversed(images_to_move), removed.imgs, removed.target_index)

\* mutant of DroppedSelection: counts from the target_index as passed in
DroppedSelection_Unadjusted(source_indices, imgs, target_index) ==
    {target_index + i : i \in 0 .. Len(ImagesToMove(source_indices, imgs)) - 1}

\* the selection handle_drop leaves: the positions from the adjusted target on
DroppedSelection(source_indices, imgs, target_index) ==
    LET images_to_move == ImagesToMove(source_indices, imgs)
        removed == RemoveLoop(source_indices, imgs, target_index)
    IN  {removed.target_index + i : i \in 0 .. Len(images_to_move) - 1}

\* ImageGridWidget.handle_drop; a ValueError of int() is caught after save_state
handle_drop(indices_str, target_index) ==
    /\ history' = SaveStateHistory(images, history)
    /\ redo_stack' = <<>>
    /\ objects' = save_state_objects
    /\ IF ParseOK(indices_str)
       THEN LET source_indices == SortedDesc(ParsedIndices(indices_str))
            IN  /\ images' = DroppedImages(source_indices, images, target_index)
                /\ selected_indices' =
                       DroppedSelection(source_indices, images, target_index)
       ELSE UNCHANGED <<images, selected_indices>>
    /\ UNCHANGED last_selected_index

----------------------------------------------------------------------------
(* FlipbookApp: the grid controls.  A spin box is [value, minimum, maximum]; *)
(* the grid is [columns_input, rows_input].  Both spin boxes are connected   *)
(* to on_grid_changed, which runs whenever a value changes while signals are *)
(* not blocked.                                                              *)

\* math.ceil(a / b) for a >= 0, b >= 1
CeilDiv(a, b) == (a + b - 1) \div b

\* math.ceil(math.sqrt(n)) for n >= 1
CeilSqrt(n) == CHOOSE r \in 1 .. n : r * r >= n /\ (r - 1) * (r - 1) < n

Clamp(v, lo, hi) == IF v < lo THEN lo ELSE IF v > hi THEN hi ELSE v

\* QSpinBox.setValue: the value is bound to [minimum, maximum]
SpinSetValue(spin, v) ==
    [spin EXCEPT !.value = Clamp(v, spin.minimum, spin.maximum)]

\* QSpinBox.setMinimum: the maximum is raised to keep the range valid and the
\* value is bound to the new range
SpinSetMinimum(spin, m) ==
    LET mx == IF spin.maximum > m THEN spin.maximum ELSE m
    IN  [value |-> Clamp(spin.value, m, mx), minimum |-> m, maximum |-> mx]

\* mutant of ReduceCols: the loop stops one column early
\* (while (cols - 1) * rows > image_count)
RECURSIVE ReduceCols_Strict(_, _, _)
ReduceCols_Strict(cols, rows, image_count) ==
    IF (cols - 1) * rows > image_count
    THEN ReduceCols_Strict(cols - 1, rows, image_count)
    ELSE cols

\* the reduction loop of get_min_grid_size
RECURSIVE ReduceCols(_, _, _)
ReduceCols(cols, rows, image_count) ==
    IF (cols - 1) * rows >= image_count
    THEN ReduceCols(cols - 1, rows, image_count)
    ELSE cols

\* FlipbookApp.get_min_grid_size: the pair it returns, <<rows, cols>>
get_min_grid_size(image_count) ==
    IF image_count = 0 THEN <<1, 1>>
    ELSE LET rows == CeilSqrt(image_count)
         IN  <<rows, ReduceCols(rows, rows, image_count)>>

\* mutant of update_grid_constraints: the minimums are rounded down
\* (image_count // current_cols)
update_grid_constraints_Floor(image_count, grid) ==
    IF image_count = 0
    THEN [columns_input |-> SpinSetMinimum(grid.columns_input, 1),
          rows_input |-> SpinSetMinimum(grid.rows_input, 1)]
    ELSE LET current_cols == grid.columns_input.value
             current_rows == grid.rows_input.value
             min_rows == image_count \div current_cols
             min_cols == image_count \div current_rows
             cols1 == SpinSetMinimum(grid.columns_input, min_cols)
             rows1 == SpinSetMinimum(grid.rows_input, min_rows)
         IN  [columns_input |-> IF current_cols < min_cols
                                THEN SpinSetValue(cols1, min_cols) ELSE cols1,
              rows_input |-> IF current_rows < min_rows
                             THEN SpinSetValue(rows1, min_rows) ELSE rows1]

\* FlipbookApp.update_grid_constraints
update_grid_constraints(image_count, grid) ==
    IF image_count = 0
    THEN [columns_input |-> SpinSetMinimum(grid.columns_input, 1),
          rows_input |-> SpinSetMinimum(grid.rows_input, 1)]
    ELSE LET current_cols == grid.columns_input.value
             current_rows == grid.rows_input.value
             min_rows == CeilDiv(image_count, current_cols)
             min_cols == CeilDiv(image_count, current_rows)
             cols1 == SpinSetMinimum(grid.columns_input, min_cols)
             rows1 == SpinSetMinimum(grid.rows_input, min_rows)
         IN  [columns_input |-> IF current_cols < min_cols
                                THEN SpinSetValue(cols1, min_cols) ELSE cols1,
              rows_input |-> IF current_rows < min_rows
                             THEN SpinSetValue(rows1, min_rows) ELSE rows1]

\* columns_input.setValue(v) with signals live: a changed value runs
\* on_grid_changed, that is update_grid_constraints
ColumnsSetValue(image_count, grid, v) ==
    LET set == [grid EXCEPT !.columns_input = SpinSetValue(grid.columns_input, v)]
    IN  IF set.columns_input.value # grid.columns_input.value
        THEN update_grid_constraints(image_count, set)
        ELSE set

\* rows_input.setValue(v) with signals live
RowsSetValue(image_count, grid, v) ==
    LET set == [grid EXCEPT !.rows_input = SpinSetValue(grid.rows_input, v)]
    IN  IF set.rows_input.value # grid.rows_input.value
        THEN update_grid_constraints(image_count, set)
        ELSE set

\* the four lines every count-changing command of FlipbookApp ends with:
\*   cols, rows = self.get_min_grid_size()
\*   self.columns_input.setValue(cols); self.rows_input.setValue(rows)
\*   self.update_grid_constraints()
ResetGrid(image_count, grid) ==
    LET size == get_min_grid_size(image_count)
        cols == size[1]
        rows == size[2]
    IN  update_grid_constraints(image_count,
            RowsSetValue(image_count, ColumnsSetValue(image_count, grid, cols), rows))

Grid == [columns_input |-> columns_input, rows_input |-> rows_input]

SetGrid(grid) ==
    /\ columns_input' = grid.columns_input
    /\ rows_input' = grid.rows_input

----------------------------------------------------------------------------
(* FlipbookApp: the output size and the export.  A pixmap is known by the   *)
(* file it was loaded from; its size is the size of that file's picture.    *)

\* pixmap.width(), pixmap.height() of the picture in file e
PixmapSize(e) ==
    CASE e = 1 -> <<64, 64>>
      [] e = 2 -> <<100, 50>>
      [] OTHER -> <<32, 48>>

\* the pairs <<total, value>>, total in 1 .. 800 and value in 1 .. 100, for
\* which the double product total * (value / 100.0) lies just below the whole
\* number total * value / 100, so that int() gives one less
FloatShort ==
    {<<50, 58>>, <<90, 70>>, <<100, 29>>, <<100, 57>>, <<100, 58>>,
     <<150, 82>>, <<170, 70>>, <<180, 35>>, <<180, 70>>, <<200, 29>>,
     <<200, 57>>, <<200, 58>>, <<300, 41>>, <<300, 57>>, <<300, 69>>,
     <<300, 82>>, <<330, 70>>, <<340, 35>>, <<340, 70>>, <<350, 70>>,
     <<360, 35>>, <<360, 70>>, <<400, 29>>, <<400, 57>>, <<400, 58>>,
     <<600, 41>>, <<600, 57>>, <<600, 69>>, <<600, 82>>, <<650, 70>>,
     <<660, 35>>, <<660, 70>>, <<670, 70>>, <<680, 35>>, <<680, 70>>,
     <<690, 70>>, <<700, 35>>, <<700, 57>>, <<700, 69>>, <<700, 70>>,
     <<710, 70>>, <<720, 35>>, <<720, 70>>, <<730, 70>>, <<750, 58>>,
     <<800, 29>>, <<800, 57>>, <<800, 58>>}

\* int(total * scale) with scale = value / 100.0, in double arithmetic
IntOfScaled(total, value) ==
    LET exact == (total * value) \div 100
    IN  IF <<total, value>> \in FloatShort THEN exact - 1 ELSE exact

\* FlipbookApp.update_resolution: the numbers it writes into the label
update_resolution ==
    IF images = <<>>
    THEN [output_width |-> 0, output_height |-> 0,
          scaled_cell_width |-> 0, scaled_cell_height |-> 0]
    ELSE LET cell_width == PixmapSize(images[1])[1]
             cell_height == PixmapSize(images[1])[2]
             total_width == cell_width * columns_input.value
             total_height == cell_height * rows_input.value
         IN  [output_width |-> IntOfScaled(total_width, scale_slider),
              output_height |-> IntOfScaled(total_height, scale_slider),
              scaled_cell_width |-> IntOfScaled(cell_width, scale_slider),
              scaled_cell_height |-> IntOfScaled(cell_height, scale_slider)]

\* mutant of DrawLoop: the loop does not stop at the last cell of the grid
RECURSIVE DrawLoop_NoBreak(_, _, _, _, _, _)
DrawLoop_NoBreak(idx, imgs, columns, rows, cell_width, cell_height) ==
    IF idx >= Len(imgs) THEN <<>>
    ELSE <<[idx |-> idx,
            x |-> (idx % columns) * cell_width,
            y |-> (idx \div columns) * cell_height,
            width |-> cell_width, height |-> cell_height,
            scaled |-> PixmapSize(imgs[idx + 1]) # <<cell_width, cell_height>>]>>
         \o DrawLoop_NoBreak(idx + 1, imgs, columns, rows, cell_width, cell_height)

\* mutant of DrawLoop: row and column are taken the other way round
RECURSIVE DrawLoop_Transposed(_, _, _, _, _, _)
DrawLoop_Transposed(idx, imgs, columns, rows, cell_width, cell_height) ==
    IF idx >= Len(imgs) \/ idx >= columns * rows THEN <<>>
    ELSE <<[idx |-> idx,
            x |-> (idx \div columns) * cell_width,
            y |-> (idx % columns) * cell_height,
            width |-> cell_width, height |-> cell_height,
            scaled |-> PixmapSize(imgs[idx + 1]) # <<cell_width, cell_height>>]>>
         \o DrawLoop_Transposed(idx + 1, imgs, columns, rows, cell_width, cell_height)

\* the drawing loop of export_flipbook, from position idx on: the pixmaps
\* drawn, each with its origin and the size it is drawn at
RECURSIVE DrawLoop(_, _, _, _, _, _)
DrawLoop(idx, imgs, columns, rows, cell_width, cell_height) ==
    IF idx >= Len(imgs) \/ idx >= columns * rows THEN <<>>
    ELSE <<[idx |-> idx,
            x |-> (idx % columns) * cell_width,
            y |-> (idx \div columns) * cell_height,
            width |-> cell_width, height |-> cell_height,
            scaled |-> PixmapSize(imgs[idx + 1]) # <<cell_width, cell_height>>]>>
         \o DrawLoop(idx + 1, imgs, columns, rows, cell_width, cell_height)

\* the paths the save dialog can return: none (the dialog was cancelled), a
\* path whose format QImage.save writes, a .tga path, which PIL writes
ExportPaths == {"", "flipbook.png", "flipbook.tga"}

\* what export_flipbook does without an error of the encoder
ExportOutcome(status, saved) ==
    LET columns == columns_input.value
        rows == rows_input.value
        cell_width == PixmapSize(images[1])[1]
        cell_height == PixmapSize(images[1])[2]
        original_width == cell_width * columns
        original_height == cell_height * rows
        output_width == IntOfScaled(original_width, scale_slider)
        output_height == IntOfScaled(original_height, scale_slider)
    IN  [status |-> status,
         canvas |-> <<original_width, original_height>>,
         drawn |-> DrawLoop(0, images, columns, rows, cell_width, cell_height),
         resampled |-> (output_width # original_width \/ output_height # original_height),
         output |-> <<output_width, output_height>>,
         saved |-> saved]

\* FlipbookApp.export_flipbook with the path the dialog returned and whether
\* the encoder can write the file.  QImage.save returns False when it cannot,
\* and the value is not looked at; PIL's save raises, which the except
\* clause reports.
export_flipbook(file_path, encoder_ok) ==
    IF images = <<>> THEN [status |-> "No images to export"]
    ELSE IF file_path = "" THEN [status |-> "Export canceled"]
    ELSE IF encoder_ok THEN ExportOutcome("Flipbook exported successfully", TRUE)
    ELSE IF file_path = "flipbook.tga" THEN ExportOutcome("Error exporting flipbook", FALSE)
    ELSE ExportOutcome("Flipbook exported successfully", FALSE)

----------------------------------------------------------------------------
(* Inputs *)

\* a folder of n files, listed in sorted order
FolderList(n) == [i \in 1 .. n |-> i]

\* lists of one or two files that are not in imgs yet
FreshLists(imgs) ==
    LET free == Entries \ Range(imgs)
    IN  {<<a>> : a \in free} \cup
        {<<p[1], p[2]>> : p \in {q \in free \X free : q[1] # q[2]}}

\* texts another application can drop on a grid of n images: the empty text,
\* a text with a piece that is no number, an index past the end alone and
\* beside a valid one, a negative number
ExternalTexts(n) ==
    {<<BadTok>>, <<NumTok(0), BadTok>>, <<NumTok(n)>>,
     <<NumTok(0), NumTok(n)>>, <<NumTok(-1)>>}

\* the text start_drag puts into the drag's mime data
DragText == JoinIndices(SortedAscSet(selected_indices))

\* what a call that is no export has to show for an export
NoResult == [status |-> "none"]

\* the record of a call: its name and arguments, whether it went past its
\* early return (acted), the images it found (before) and, for an export,
\* what it produced (result)
Call(op, index, indices_str, entries, acted) ==
    [op |-> op, index |-> index, indices_str |-> indices_str, entries |-> entries,
     acted |-> acted, before |-> images, result |-> NoResult]

----------------------------------------------------------------------------
(* The ImageGridWidget driven through its methods.  The methods do not      *)
(* touch the spin boxes of FlipbookApp.                                     *)

Init ==
    /\ images = <<>>
    /\ selected_indices = {}
    /\ last_selected_index = None
    /\ history = <<>>
    /\ redo_stack = <<>>
    /\ objects = [images |-> 1, history |-> <<>>, redo_stack |-> <<>>]
    /\ columns_input = [value |-> 4, minimum |-> 1, maximum |-> 100]
    /\ rows_input = [value |-> 4, minimum |-> 1, maximum |-> 100]
    /\ scale_slider = 100
    /\ export_button = FALSE
    /\ last = Call("init", None, <<>>, <<>>, FALSE)

\* a snapshot may be pushed
MayPush == Len(history) \in SnapshotDepths

ReplaceAll ==
    \E n \in 0 .. MaxLen :
        /\ add_images(FolderList(n))
        /\ last' = Call("add_images", None, <<>>, FolderList(n), TRUE)
        /\ UNCHANGED app_vars
        /\ UNCHANGED grid_vars

AppendImages ==
    \E X \in FreshLists(images) \cup {<<>>} :
        /\ Len(images) + Len(X) <= MaxLen
        /\ X = <<>> \/ MayPush
        /\ append_images(X)
        /\ last' = Call("append_images", None, <<>>, X, X # <<>>)
        /\ UNCHANGED app_vars
        /\ UNCHANGED grid_vars

SelectSingle ==
    \E index \in 0 .. Len(images) - 1 :
        /\ select_single(index)
        /\ last' = Call("select_single", index, <<>>, <<>>, TRUE)
        /\ UNCHANGED app_vars
        /\ UNCHANGED grid_vars

ToggleSelection ==
    \E index \in 0 .. Len(images) - 1 :
        /\ toggle_selection(index)
        /\ last' = Call("toggle_selection", index, <<>>, <<>>, TRUE)
        /\ UNCHANGED app_vars
        /\ UNCHANGED grid_vars

SelectRange ==
    \E index \in 0 .. Len(images) - 1 :
        /\ select_range(index)
        /\ last' = Call("select_range", index, <<>>, <<>>, TRUE)
        /\ UNCHANGED app_vars
        /\ UNCHANGED grid_vars

ClearSelection ==
    /\ clear_selection
    /\ last' = Call("clear_selection", None, <<>>, <<>>, TRUE)
    /\ UNCHANGED app_vars
    /\ UNCHANGED grid_vars

DeleteSelected ==
    /\ selected_indices = {} \/ MayPush
    /\ delete_selected
    /\ last' = Call("delete_selected", None, DragText, <<>>, selected_indices # {})
    /\ UNCHANGED app_vars
    /\ UNCHANGED grid_vars

\* a drag of the selected thumbnails dropped on a drop zone or on the grid
DragDrop ==
    \E target_index \in 0 .. Len(images) :
        /\ selected_indices # {}
        /\ MayPush
        /\ handle_drop(DragText, target_index)
        /\ last' = Call("handle_drop", target_index, DragText, <<>>, TRUE)
        /\ UNCHANGED app_vars
        /\ UNCHANGED grid_vars

\* a text dragged in from elsewhere and dropped on a drop zone or on the grid
ExternalDrop ==
    \E target_index \in 0 .. Len(images) :
        \E indices_str \in ExternalTexts(Len(images)) :
            /\ MayPush
            /\ handle_drop(indices_str, target_index)
            /\ last' = Call("handle_drop", target_index, indices_str, <<>>, TRUE)
            /\ UNCHANGED app_vars
            /\ UNCHANGED grid_vars

Undo ==
    /\ undo
    /\ last' = Call("undo", None, <<>>, <<>>, Len(history) > 0)
    /\ UNCHANGED app_vars
    /\ UNCHANGED grid_vars

Redo ==
    /\ redo
    /\ last' = Call("redo", None, <<>>, <<>>, Len(redo_stack) > 0)
    /\ UNCHANGED app_vars
    /\ UNCHANGED grid_vars

Next ==
    \/ ReplaceAll
    \/ AppendImages
    \/ SelectSingle
    \/ ToggleSelection
    \/ SelectRange
    \/ ClearSelection
    \/ DeleteSelected
    \/ DragDrop
    \/ ExternalDrop
    \/ Undo
    \/ Redo

Spec == Init /\ [][Next]_vars

----------------------------------------------------------------------------
(* Vocabulary of the properties *)

\* the numbers of a drop text
TextIndices(indices_str) ==
    {indices_str[i].val : i \in {j \in 1 .. Len(indices_str) : indices_str[j].num}}

\* the text names a non-empty set of valid indices of a list of n, each once
NamesValidSet(indices_str, n) ==
    /\ ParseOK(indices_str)
    /\ TextIndices(indices_str) # {}
    /\ TextIndices(indices_str) \subseteq 0 .. n - 1
    /\ Cardinality(TextIndices(indices_str)) = Len(indices_str)

\* the text names no item of a list of n: it is empty or unparsable, or none
\* of its numbers is an index of the list
NamesNoItem(indices_str, n) ==
    \/ ~ParseOK(indices_str)
    \/ TextIndices(indices_str) \cap (0 .. n - 1) = {}

\* how often e occurs in s
Count(s, e) == Cardinality({i \in 1 .. Len(s) : s[i] = e})

\* some position of e in s (the position, when the entries of s are distinct)
Pos(s, e) == CHOOSE i \in 1 .. Len(s) : s[i] = e

\* s without the entries at the 0-based indices in D, the others in order
RECURSIVE Without(_, _, _)
Without(s, D, i) ==
    IF i >= Len(s) THEN <<>>
    ELSE (IF i \in D THEN <<>> ELSE <<s[i + 1]>>) \o Without(s, D, i + 1)

\* the entries of s that are in the set E, in the order they have in s
RECURSIVE Filter(_, _)
Filter(s, E) ==
    IF s = <<>> THEN <<>>
    ELSE (IF Head(s) \in E THEN <<Head(s)>> ELSE <<>>) \o Filter(Tail(s), E)

DroppedValidSet == last'.op = "handle_drop" /\ NamesValidSet(last'.indices_str, Len(images))

----------------------------------------------------------------------------
(* C1 *)

\* C1: after handle_drop of a non-empty set I of valid indices to a target in
\* [0, len], the moved entries appear in the relative order they had before.
C1_MovedOrderKept ==
    [][DroppedValidSet =>
         LET I == TextIndices(last'.indices_str)
         IN  \A i \in I : \A j \in I :
                 i < j => Pos(images', images[i + 1]) < Pos(images', images[j + 1])]_vars

----------------------------------------------------------------------------
(* C2 *)

\* C2: handle_drop of a set I of valid indices (the empty text names the empty
\* set) to a target in [0, len] permutes the list: the length and the number of
\* occurrences of every entry are kept, and the entries outside I keep their
\* relative order.
C2_MoveIsPermutation ==
    [][(DroppedValidSet \/ (last'.op = "handle_drop" /\ last'.indices_str = <<BadTok>>)) =>
         LET I == TextIndices(last'.indices_str)
             unmoved == Without(images, I, 0)
         IN  /\ Len(images') = Len(images)
             /\ \A e \in Entries : Count(images', e) = Count(images, e)
             /\ Filter(images', Range(unmoved)) = unmoved]_vars

\* a drop has moved one entry of three, past the two that stay
C2_Witness ==
    /\ last.op = "handle_drop"
    /\ NamesValidSet(last.indices_str, Len(last.before))
    /\ Len(images) = 3
    /\ Cardinality(TextIndices(last.indices_str)) = 1
    /\ images # last.before

----------------------------------------------------------------------------
(* C6 *)

\* C6: with valid index arguments, every member of the selection is a valid
\* index of the image list in every reachable state.
C6_SelectionValid == \A i \in selected_indices : 0 <= i /\ i < Len(images)

\* a drop has moved two entries and selected their new positions
C6_Witness ==
    /\ last.op = "handle_drop"
    /\ Cardinality(selected_indices) >= 2
    /\ images # last.before

----------------------------------------------------------------------------
(* C7 *)

\* C7: handle_drop with a text that names no item changes nothing: the list,
\* the selection, the undo stack and the redo stack stay as they were.
C7_EmptyMoveIsNoOp ==
    [][(last'.op = "handle_drop" /\ NamesNoItem(last'.indices_str, Len(images))) =>
         UNCHANGED <<images, selected_indices, history, redo_stack>>]_vars

----------------------------------------------------------------------------
(* C3 *)

Mutations == {"append_images", "delete_selected", "handle_drop"}

\* C3: append_images(X) puts X at the end; an undo right after a mutation
\* (append, delete or move) restores exactly the list the mutation found, and a
\* redo right after that undo restores exactly the list the mutation left.
C3_UndoRedoRoundTrip ==
    [][/\ (last'.op = "append_images") => images' = images \o last'.entries
       /\ (last.op \in Mutations /\ last.acted /\ last'.op = "undo") =>
              images' = last.before
       /\ (last.op = "undo" /\ last.acted /\ last'.op = "redo") =>
              images' = last.before]_vars

\* a redo has brought back an append that had been undone
C3_Witness ==
    /\ last.op = "redo"
    /\ last.acted
    /\ history # <<>>
    /\ StackTop(history) = last.before
    /\ Len(images) > Len(last.before)
    /\ SubSeq(images, 1, Len(last.before)) = last.before

----------------------------------------------------------------------------
(* Calls with an index past the end of the list, which the thumbnails never *)
(* make but any other caller of the methods can.                            *)

SelectSingleStale ==
    \E index \in Len(images) .. MaxLen :
        /\ select_single(index)
        /\ last' = Call("select_single", index, <<>>, <<>>, TRUE)
        /\ UNCHANGED app_vars
        /\ UNCHANGED grid_vars

ToggleSelectionStale ==
    \E index \in Len(images) .. MaxLen :
        /\ toggle_selection(index)
        /\ last' = Call("toggle_selection", index, <<>>, <<>>, TRUE)
        /\ UNCHANGED app_vars
        /\ UNCHANGED grid_vars

SelectRangeStale ==
    \E index \in Len(images) .. MaxLen :
        /\ select_range(index)
        /\ last' = Call("select_range", index, <<>>, <<>>, TRUE)
        /\ UNCHANGED app_vars
        /\ UNCHANGED grid_vars

NextStale ==
    \/ Next
    \/ SelectSingleStale
    \/ ToggleSelectionStale
    \/ SelectRangeStale

SpecStale == Init /\ [][NextStale]_vars

----------------------------------------------------------------------------
(* C5 *)

\* C5: delete_selected removes exactly the entries at the selected indices that
\* lie in [0, len) and keeps the others in order, also when the selection holds
\* indices past the end; one undo right after it restores the list it found.
C5_DeleteRemovesSelected ==
    [][/\ (last'.op = "delete_selected" /\ selected_indices # {}) =>
              images' = Without(images, selected_indices, 0)
       /\ (last.op = "delete_selected" /\ last.acted /\ last'.op = "undo") =>
              images' = last.before]_vars

\* indices 0 and 2 and an index past the end were selected in a list of three,
\* and the delete has left the middle entry
C5_Witness ==
    /\ last.op = "delete_selected"
    /\ Len(last.before) = 3
    /\ TextIndices(last.indices_str) = {0, 2, 3}
    /\ images = <<last.before[2]>>

----------------------------------------------------------------------------
(* C8 *)

\* C8: select_single, toggle_selection and select_range called with an index
\* >= len never put such an index into the selection nor make it the anchor.
C8_StaleIndexIgnored ==
    /\ \A i \in selected_indices : i < Len(images)
    /\ last_selected_index = None \/ last_selected_index < Len(images)

----------------------------------------------------------------------------
(* The undo history at its cap: one image is appended at a time, from the   *)
(* empty list, with undo and redo in between.  After n appends in a row the  *)
(* list holds n images, so Len(images) + Len(redo_stack) counts the appends  *)
(* of the current line of edits.                                             *)

CapAppend ==
    /\ Len(images) < CapLen
    /\ append_images(<<1>>)
    /\ last' = Call("append_images", None, <<>>, <<1>>, TRUE)
    /\ UNCHANGED app_vars
    /\ UNCHANGED grid_vars

NextCap ==
    \/ CapAppend
    \/ Undo
    \/ Redo

SpecCap == Init /\ [][NextCap]_vars

----------------------------------------------------------------------------
(* C4 *)

\* C4: the undo stack never holds more than max_history snapshots; a push onto
\* a full stack discards the oldest snapshot and keeps the new one; and when
\* max_history undos have been taken from the list that max_history + 1
\* appends built, nothing is left to undo and the list is the one the first
\* append left.
C4_HistoryCapped ==
    /\ [](Len(history) <= max_history)
    /\ []((Len(redo_stack) = max_history /\ Len(redo_stack[1]) = max_history + 1) =>
              (history = <<>> /\ images = <<1>>))
    /\ [][(last'.op = "append_images" /\ Len(history) = max_history) =>
              history' = Append(Tail(history), images)]_vars

\* 51 appends were made and 50 undos taken: nothing is left to undo
C4_Witness ==
    /\ history = <<>>
    /\ Len(redo_stack) = max_history
    /\ Len(redo_stack[1]) = max_history + 1
    /\ images = <<1>>

----------------------------------------------------------------------------
(* FlipbookApp driven through its commands.  The grid code reads only the   *)
(* number of images, so SpecGrid does not tell the files apart: every entry *)
(* is file 1.                                                               *)

\* a list of n images
GridList(n) == [i \in 1 .. n |-> 1]

\* FlipbookApp.select_folder with a folder of n loadable images
AppSelectFolder ==
    \E n \in 0 .. GridMaxCount :
        /\ add_images(GridList(n))
        /\ SetGrid(ResetGrid(Len(images'), Grid))
        /\ last' = Call("select_folder", None, <<>>, GridList(n), TRUE)
        /\ export_button' = TRUE
        /\ UNCHANGED scale_slider

\* FlipbookApp.add_images with n loadable images picked
AppAddImages ==
    \E n \in 1 .. GridMaxCount :
        /\ Len(images) + n <= GridMaxCount
        /\ MayPush
        /\ append_images(GridList(n))
        /\ SetGrid(ResetGrid(Len(images'), Grid))
        /\ last' = Call("app_add_images", None, <<>>, GridList(n), TRUE)
        /\ export_button' = TRUE
        /\ UNCHANGED scale_slider

\* FlipbookApp.delete_selected_images
AppDeleteSelected ==
    /\ selected_indices = {} \/ MayPush
    /\ delete_selected
    /\ SetGrid(ResetGrid(Len(images'), Grid))
    /\ last' = Call("app_delete", None, DragText, <<>>, selected_indices # {})
    /\ UNCHANGED app_vars

\* FlipbookApp.undo
AppUndo ==
    /\ undo
    /\ SetGrid(ResetGrid(Len(images'), Grid))
    /\ last' = Call("app_undo", None, <<>>, <<>>, Len(history) > 0)
    /\ UNCHANGED app_vars

\* FlipbookApp.redo
AppRedo ==
    /\ redo
    /\ SetGrid(ResetGrid(Len(images'), Grid))
    /\ last' = Call("app_redo", None, <<>>, <<>>, Len(redo_stack) > 0)
    /\ UNCHANGED app_vars

\* the user enters another value into the columns spin box
UserSetColumns ==
    \E v \in 1 .. GridMaxSpin :
        /\ columns_input.minimum <= v /\ v <= columns_input.maximum
        /\ v # columns_input.value
        /\ SetGrid(ColumnsSetValue(Len(images), Grid, v))
        /\ last' = Call("user_columns", v, <<>>, <<>>, TRUE)
        /\ UNCHANGED app_vars
        /\ UNCHANGED widget_vars

\* the user enters another value into the rows spin box
UserSetRows ==
    \E v \in 1 .. GridMaxSpin :
        /\ rows_input.minimum <= v /\ v <= rows_input.maximum
        /\ v # rows_input.value
        /\ SetGrid(RowsSetValue(Len(images), Grid, v))
        /\ last' = Call("user_rows", v, <<>>, <<>>, TRUE)
        /\ UNCHANGED app_vars
        /\ UNCHANGED widget_vars

NextGrid ==
    \/ AppSelectFolder
    \/ AppAddImages
    \/ AppDeleteSelected
    \/ AppUndo
    \/ AppRedo
    \/ UserSetColumns
    \/ UserSetRows
    \/ SelectSingle
    \/ SelectRange

SpecGrid == Init /\ [][NextGrid]_vars

----------------------------------------------------------------------------
(* C9 *)

\* C9: whenever there are images, columns >= ceil(count / rows) and
\* rows >= ceil(count / columns), so columns * rows >= count.
C9_GridHoldsAll ==
    Len(images) >= 1 =>
        /\ columns_input.value >= CeilDiv(Len(images), rows_input.value)
        /\ rows_input.value >= CeilDiv(Len(images), columns_input.value)
        /\ columns_input.value * rows_input.value >= Len(images)

\* images were added to a grid that was too small for them, and it has grown
C9_Witness ==
    /\ last.op = "app_add_images"
    /\ Len(last.before) >= 1
    /\ columns_input.value * rows_input.value >= Len(images)
    /\ columns_input.minimum * rows_input.value >= Len(images)
    /\ Len(images) >= 3

----------------------------------------------------------------------------
(* C10 *)

CountCommands == {"select_folder", "app_add_images", "app_delete", "app_undo", "app_redo"}

\* C10: after a command that changed the number of images to n >= 1 the grid
\* has as many cells as the grid get_min_grid_size computes for n.
C10_GridResetToMinimum ==
    (last.op \in CountCommands /\ Len(images) # Len(last.before) /\ Len(images) >= 1) =>
        columns_input.value * rows_input.value =
            get_min_grid_size(Len(images))[1] * get_min_grid_size(Len(images))[2]

----------------------------------------------------------------------------
(* FlipbookApp loading larger sets of images: a folder is loaded, images    *)
(* are added, and the load is undone and redone.                            *)

\* FlipbookApp.select_folder with a folder of n loadable images
LoadFolder ==
    \E n \in 0 .. LoadMax :
        /\ add_images(GridList(n))
        /\ SetGrid(ResetGrid(Len(images'), Grid))
        /\ last' = Call("select_folder", None, <<>>, GridList(n), TRUE)
        /\ export_button' = TRUE
        /\ UNCHANGED scale_slider

\* FlipbookApp.add_images with n loadable images picked
LoadAdd ==
    \E n \in 1 .. LoadMax :
        /\ Len(images) + n <= LoadMax
        /\ MayPush
        /\ append_images(GridList(n))
        /\ SetGrid(ResetGrid(Len(images'), Grid))
        /\ last' = Call("app_add_images", None, <<>>, GridList(n), TRUE)
        /\ export_button' = TRUE
        /\ UNCHANGED scale_slider

NextLoad ==
    \/ LoadFolder
    \/ LoadAdd
    \/ AppUndo
    \/ AppRedo

SpecLoad == Init /\ [][NextLoad]_vars

----------------------------------------------------------------------------
(* C11 *)

\* the spin boxes as FlipbookApp.__init__ leaves them
FreshGrid ==
    /\ columns_input = [value |-> 4, minimum |-> 1, maximum |-> 100]
    /\ rows_input = [value |-> 4, minimum |-> 1, maximum |-> 100]

\* C11: when a load into a fresh session sizes the grid, the rows spin box
\* holds the rows get_min_grid_size returned and the columns spin box holds
\* the cols; 17 images give 5 rows and 4 columns.
C11_RowsAndColsAssigned ==
    [][(/\ last'.op \in {"select_folder", "app_add_images"}
        /\ FreshGrid
        /\ Len(images') >= 1)
       => /\ rows_input'.value = get_min_grid_size(Len(images'))[1]
          /\ columns_input'.value = get_min_grid_size(Len(images'))[2]]_vars

----------------------------------------------------------------------------
(* C12 *)

\* C12: for the number n >= 1 of images loaded, get_min_grid_size returns
\* (rows, cols) with cols >= 1, rows * cols >= n and (rows - 1) * cols < n;
\* 17 gives (5, 4), 16 gives (4, 4) and 1 gives (1, 1).
C12_MinGridSize ==
    LET n == Len(images)
        rows == get_min_grid_size(n)[1]
        cols == get_min_grid_size(n)[2]
    IN  n >= 1 =>
            /\ cols >= 1
            /\ rows * cols >= n
            /\ (rows - 1) * cols < n
            /\ n = 17 => (rows = 5 /\ cols = 4)
            /\ n = 16 => (rows = 4 /\ cols = 4)
            /\ n = 1 => (rows = 1 /\ cols = 1)

\* seventeen images have been loaded and the grid has been sized for them
C12_Witness ==
    /\ last.op = "select_folder"
    /\ Len(images) = 17
    /\ get_min_grid_size(Len(images)) = <<5, 4>>
    /\ columns_input.value * rows_input.value = 20

----------------------------------------------------------------------------
(* C13 *)

\* C13: select_single(a) directly followed by select_range(b), both indices
\* valid, leaves exactly the closed interval between a and b selected,
\* whatever was selected before select_single(a).
C13_SingleThenRange ==
    [][(last.op = "select_single" /\ last'.op = "select_range")
       => selected_indices' =
            {i \in 0 .. Len(images) - 1 :
                \/ last.index <= i /\ i <= last'.index
                \/ last'.index <= i /\ i <= last.index}]_vars

\* a range was selected downwards from the anchor, over the whole list
C13_Witness ==
    /\ last.op = "select_range"
    /\ last.index = 0
    /\ last_selected_index = 2
    /\ selected_indices = {0, 1, 2}

----------------------------------------------------------------------------
(* C14 *)

\* C14: add_images sets the list to the given entries, empties the
\* selection, unsets the anchor and empties both stacks; and with both stacks
\* empty an undo or a redo changes nothing, so no number of them made right
\* after add_images brings back any part of the list it replaced.
C14_ReplaceAllNotUndoable ==
    [][/\ last'.op = "add_images" =>
            /\ images' = last'.entries
            /\ selected_indices' = {}
            /\ last_selected_index' = None
            /\ history' = <<>>
            /\ redo_stack' = <<>>
       /\ (history = <<>> /\ redo_stack = <<>> /\ last'.op \in {"undo", "redo"}) =>
            UNCHANGED widget_vars]_vars

\* a list with undo history was replaced by another one
C14_Witness ==
    /\ last.op = "add_images"
    /\ last.before = <<2, 1>>
    /\ images = <<1, 2, 3>>
    /\ history = <<>>
    /\ redo_stack = <<>>

----------------------------------------------------------------------------
(* C15 *)

\* C15: undo with an empty undo stack and redo with an empty redo stack leave
\* the list, the selection, the anchor and both stacks exactly as they were.
C15_EmptyUndoRedoNoOp ==
    [][(\/ last'.op = "undo" /\ history = <<>>
        \/ last'.op = "redo" /\ redo_stack = <<>>)
       => UNCHANGED widget_vars]_vars

\* redo was called with nothing to redo, while images were selected and the
\* undo stack held a snapshot
C15_Witness ==
    /\ last.op = "redo"
    /\ ~last.acted
    /\ redo_stack = <<>>
    /\ history # <<>>
    /\ selected_indices # {}
    /\ last_selected_index # None

----------------------------------------------------------------------------
(* C16 *)

\* C16: append_images with an empty list and delete_selected with an empty
\* selection push no snapshot, keep the redo stack and leave the list, the
\* selection and the anchor unchanged.
C16_EmptyAppendDeleteNoOp ==
    [][(\/ last'.op = "append_images" /\ last'.entries = <<>>
        \/ last'.op = "delete_selected" /\ selected_indices = {})
       => UNCHANGED widget_vars]_vars

\* delete_selected was called with nothing selected, while the redo stack
\* held a snapshot and the anchor was set
C16_Witness ==
    /\ last.op = "delete_selected"
    /\ ~last.acted
    /\ selected_indices = {}
    /\ redo_stack # <<>>
    /\ last_selected_index # None
    /\ images # <<>>

----------------------------------------------------------------------------
(* FlipbookApp exporting: folders are loaded, the user edits the spin boxes *)
(* and moves the scale slider, and the flipbook is exported.                *)

\* a folder of n pictures: the first is file first, the others are file rest
FolderOf(first, rest, n) == [i \in 1 .. n |-> IF i = 1 THEN first ELSE rest]

\* FlipbookApp.select_folder
ExportSelectFolder ==
    \E n \in 0 .. ExportMaxCount :
        \E first \in Entries :
            \E rest \in Entries :
                /\ add_images(FolderOf(first, rest, n))
                /\ SetGrid(ResetGrid(Len(images'), Grid))
                /\ export_button' = TRUE
                /\ UNCHANGED scale_slider
                /\ last' = Call("select_folder", None, <<>>, FolderOf(first, rest, n), TRUE)

\* the user moves the scale slider
UserSetScale ==
    \E v \in ScaleValues :
        /\ v # scale_slider
        /\ scale_slider' = v
        /\ last' = Call("user_scale", v, <<>>, <<>>, TRUE)
        /\ UNCHANGED <<widget_vars, grid_vars, export_button>>

\* mutant of ExportFlipbook: the export clears the selection
ExportFlipbook_ClearsSelection ==
    \E file_path \in ExportPaths :
        \E encoder_ok \in BOOLEAN :
            /\ export_button
            /\ encoder_ok =>
                    /\ update_resolution.output_width > 0
                    /\ update_resolution.output_height > 0
            /\ last' = [Call("export_flipbook", None, <<>>, <<>>,
                              images # <<>> /\ file_path # "")
                            EXCEPT !.result = export_flipbook(file_path, encoder_ok)]
            /\ selected_indices' = {}
            /\ UNCHANGED <<images, last_selected_index, history, redo_stack, objects,
                           grid_vars, app_vars>>

\* the user presses the export button.  A picture without pixels cannot be
\* written.
ExportFlipbook ==
    \E file_path \in ExportPaths :
        \E encoder_ok \in BOOLEAN :
            /\ export_button
            /\ encoder_ok =>
                    /\ update_resolution.output_width > 0
                    /\ update_resolution.output_height > 0
            /\ last' = [Call("export_flipbook", None, <<>>, <<>>,
                              images # <<>> /\ file_path # "")
                            EXCEPT !.result = export_flipbook(file_path, encoder_ok)]
            /\ UNCHANGED <<widget_vars, grid_vars, app_vars>>

NextExport ==
    \/ ExportSelectFolder
    \/ UserSetColumns
    \/ UserSetRows
    \/ UserSetScale
    \/ ExportFlipbook

SpecExport == Init /\ [][NextExport]_vars

----------------------------------------------------------------------------
(* export_flipbook as a function of what it reads: the list, the two spin   *)
(* box values and the slider value are drawn freely, also grids with fewer  *)
(* cells than images, which the spin box minimums keep the user from.       *)

InitCompose ==
    /\ \E n \in 1 .. ExportMaxCount + 1 :
            \E first \in Entries :
                \E rest \in Entries :
                    images = FolderOf(first, rest, n)
    /\ selected_indices = {}
    /\ last_selected_index = None
    /\ history = <<>>
    /\ redo_stack = <<>>
    /\ objects = [images |-> 1, history |-> <<>>, redo_stack |-> <<>>]
    /\ \E v \in 1 .. ComposeMaxSpin :
            columns_input = [value |-> v, minimum |-> 1, maximum |-> 100]
    /\ \E v \in 1 .. ComposeMaxSpin :
            rows_input = [value |-> v, minimum |-> 1, maximum |-> 100]
    /\ scale_slider \in ScaleValues
    /\ export_button = TRUE
    /\ last = Call("init", None, <<>>, <<>>, FALSE)

NextCompose ==
    \/ UserSetScale
    \/ ExportFlipbook

SpecCompose == InitCompose /\ [][NextCompose]_vars

----------------------------------------------------------------------------
(* C17 *)

\* an export that got as far as composing the texture
Composed == last.op = "export_flipbook" /\ last.acted

\* C17: the canvas of an export is cell_width * columns by cell_height * rows,
\* the cell size being the size of the first image, and the image at position
\* idx is drawn with its origin at ((idx mod columns) * cell_width,
\* (idx div columns) * cell_height); four images of 64 x 64 on a 2 x 2 grid
\* give a canvas of 128 x 128 with origins (0,0), (64,0), (0,64), (64,64).
C17_ComposeLayout ==
    Composed =>
        LET result == last.result
            columns == columns_input.value
            rows == rows_input.value
            cell_width == PixmapSize(images[1])[1]
            cell_height == PixmapSize(images[1])[2]
        IN  /\ result.canvas = <<cell_width * columns, cell_height * rows>>
            /\ \A k \in 1 .. Len(result.drawn) :
                    /\ result.drawn[k].idx = k - 1
                    /\ result.drawn[k].x = ((k - 1) % columns) * cell_width
                    /\ result.drawn[k].y = ((k - 1) \div columns) * cell_height
            /\ (images = <<1, 1, 1, 1>> /\ columns = 2 /\ rows = 2) =>
                    /\ result.canvas = <<128, 128>>
                    /\ [k \in 1 .. Len(result.drawn) |->
                            <<result.drawn[k].x, result.drawn[k].y>>]
                         = <<(<<0, 0>>), (<<64, 0>>), (<<0, 64>>), (<<64, 64>>)>>

\* four images of 64 x 64 were exported on a 2 x 2 grid at full scale
C17_Witness ==
    /\ Composed
    /\ images = <<1, 1, 1, 1>>
    /\ columns_input.value = 2
    /\ rows_input.value = 2
    /\ scale_slider = 100
    /\ last.result.canvas = <<128, 128>>
    /\ Len(last.result.drawn) = 4
    /\ last.result.saved

----------------------------------------------------------------------------
(* C18 *)

\* C18: an export draws exactly the images at the positions idx <
\* columns * rows, in order, and leaves out every image from position
\* columns * rows on without an error (five images on four cells: four are
\* drawn, the image at position 4 is not); every image drawn lies wholly
\* inside the canvas.
C18_ExcessDropped ==
    Composed =>
        LET result == last.result
            cells == columns_input.value * rows_input.value
        IN  /\ {result.drawn[k].idx : k \in 1 .. Len(result.drawn)} =
                    {idx \in 0 .. Len(images) - 1 : idx < cells}
            /\ \A k \in 1 .. Len(result.drawn) : result.drawn[k].idx = k - 1
            /\ result.saved => result.status = "Flipbook exported successfully"
            /\ \A k \in 1 .. Len(result.drawn) :
                    /\ 0 <= result.drawn[k].x
                    /\ 0 <= result.drawn[k].y
                    /\ result.drawn[k].x + result.drawn[k].width <= result.canvas[1]
                    /\ result.drawn[k].y + result.drawn[k].height <= result.canvas[2]
            /\ (Len(images) = 5 /\ cells = 4) =>
                    /\ Len(result.drawn) = 4
                    /\ \A k \in 1 .. Len(result.drawn) : result.drawn[k].idx # 4

\* five images were exported on a grid of four cells, and the file was written
C18_Witness ==
    /\ Composed
    /\ Len(images) = 5
    /\ columns_input.value * rows_input.value = 4
    /\ Len(last.result.drawn) = 4
    /\ last.result.saved
    /\ last.result.status = "Flipbook exported successfully"

----------------------------------------------------------------------------
(* C19 *)

\* C19: for a canvas of W x H and the slider at p, the exported image is the
\* integer part of W * p / 100 by the integer part of H * p / 100; at p = 100
\* the canvas is not resampled; a canvas of 128 x 128 at p = 50 gives
\* 64 x 64; and update_resolution shows the size the export produces.
C19_ScaledSize ==
    Composed =>
        LET result == last.result
            W == result.canvas[1]
            H == result.canvas[2]
            p == scale_slider
        IN  /\ result.output = <<(W * p) \div 100, (H * p) \div 100>>
            /\ p = 100 => ~result.resampled
            /\ (W = 128 /\ H = 128 /\ p = 50) => result.output = <<64, 64>>
            /\ result.output =
                    <<update_resolution.output_width, update_resolution.output_height>>

----------------------------------------------------------------------------
(* C20 *)

\* C20: an export whose file could not be written, because the encoder
\* returned failure or raised, ends with the error report and never with the
\* report of success.
C20_EncodeFailureReported ==
    (Composed /\ ~last.result.saved) =>
        /\ last.result.status = "Error exporting flipbook"
        /\ last.result.status # "Flipbook exported successfully"

----------------------------------------------------------------------------
(* FlipbookApp edited and exported: images are loaded, added, selected,     *)
(* deleted, the edits undone and redone, and the flipbook is exported in    *)
(* between.                                                                 *)

NextExportEdit ==
    \/ AppSelectFolder
    \/ AppAddImages
    \/ SelectSingle
    \/ AppDeleteSelected
    \/ AppUndo
    \/ AppRedo
    \/ ExportFlipbook

SpecExportEdit == Init /\ [][NextExportEdit]_vars

----------------------------------------------------------------------------
(* C21 *)

\* C21: export_flipbook leaves the list, the selection, the anchor and both
\* stacks as they are, whether the file is written, the encoder fails, the
\* dialog is cancelled or the list is empty; on an empty list it reports that
\* there are no images and produces nothing.
C21_ExportLeavesSequence ==
    [][last'.op = "export_flipbook" =>
            /\ UNCHANGED widget_vars
            /\ images = <<>> => last'.result = [status |-> "No images to export"]]_vars

\* an export failed while an image was selected and the redo stack held a
\* snapshot, and all of that is still there
C21_Witness ==
    /\ Composed
    /\ last.result.status = "Error exporting flipbook"
    /\ selected_indices # {}
    /\ last_selected_index # None
    /\ redo_stack # <<>>

----------------------------------------------------------------------------
(* C22 *)

\* C22: after a drop of k valid source indices I at target T, with T' = T
\* minus the number of members of I below T, the moved entries occupy exactly
\* the positions T' .. T' + k - 1, every unmoved entry that was before T lies
\* before the block and every unmoved entry that was at T or after lies after
\* it, and the selection is exactly {T', ..., T' + k - 1}.
C22_MovedBlockPlaced ==
    [][DroppedValidSet =>
        LET I == TextIndices(last'.indices_str)
            k == Cardinality(I)
            T == last'.index
            Tp == T - Cardinality({i \in I : i < T})
        IN  /\ 0 <= Tp /\ Tp + k <= Len(images')
            /\ {images'[p + 1] : p \in Tp .. Tp + k - 1} = {images[i + 1] : i \in I}
            /\ \A j \in (0 .. Len(images) - 1) \ I :
                    /\ j < T => Pos(images', images[j + 1]) - 1 < Tp
                    /\ j >= T => Pos(images', images[j + 1]) - 1 >= Tp + k
            /\ selected_indices' = Tp .. Tp + k - 1]_vars

\* the first and the last of three images were dropped before the last: the
\* one that stayed is in front and the two moved are selected behind it
C22_Witness ==
    /\ last.op = "handle_drop"
    /\ Len(last.before) = 3
    /\ TextIndices(last.indices_str) = {0, 2}
    /\ last.index = 2
    /\ images[1] = last.before[2]
    /\ selected_indices = {1, 2}

----------------------------------------------------------------------------
(* C23 *)

\* no snapshot on a stack is the list object behind self.images
NoSnapshotIsLive ==
    /\ \A i \in 1 .. Len(objects.history) : objects.history[i] # objects.images
    /\ \A i \in 1 .. Len(objects.redo_stack) : objects.redo_stack[i] # objects.images

\* C23: a non-empty append, a non-empty delete and a move push the list as
\* it was just before onto the undo stack and empty the redo stack; undo
\* pushes the current list onto redo and pops undo, redo does the reverse;
\* and no snapshot on a stack is the list object the live list is, so that
\* changing the live list in place never alters a snapshot.
C23_SnapshotsKept ==
    /\ [](NoSnapshotIsLive /\ Len(objects.history) = Len(history)
                           /\ Len(objects.redo_stack) = Len(redo_stack))
    /\ [][/\ (last'.op \in Mutations /\ last'.acted) =>
                /\ history' # <<>>
                /\ StackTop(history') = images
                /\ (Len(history) < max_history => history' = Append(history, images))
                /\ redo_stack' = <<>>
          /\ (last'.op = "undo" /\ last'.acted) =>
                /\ redo_stack' = Append(redo_stack, images)
                /\ images' = StackTop(history)
                /\ history' = StackRest(history)
          /\ (last'.op = "redo" /\ last'.acted) =>
                /\ history' = Append(history, images)
                /\ images' = StackTop(redo_stack)
                /\ redo_stack' = StackRest(redo_stack)]_vars

\* two of three images were deleted, and the snapshot on the undo stack
\* still shows the list as the delete found it
C23_Witness ==
    /\ last.op = "delete_selected"
    /\ last.acted
    /\ Len(last.before) = 3
    /\ Len(images) = 1
    /\ history = <<last.before>>
    /\ redo_stack = <<>>
    /\ NoSnapshotIsLive

----------------------------------------------------------------------------
(* C24 *)

\* C24: the undo stack and the redo stack together never hold more than
\* max_history snapshots, so the redo stack is bounded and redo never takes
\* the undo stack past max_history.
C24_StacksTogetherCapped == Len(history) + Len(redo_stack) <= max_history

\* every undone edit has been redone and the undo stack is full again
C24_Witness ==
    /\ last.op = "redo"
    /\ last.acted
    /\ Len(history) = max_history
    /\ redo_stack = <<>>
    /\ Len(images) = max_history + 1

----------------------------------------------------------------------------
(* C25 *)

\* C25: the anchor is always unset or an index of the list; every step that
\* shortens the list unsets it, and append_images, handle_drop and
\* clear_selection, which leave it alone, never shorten the list.
C25_AnchorValid ==
    /\ [](last_selected_index = None
            \/ (0 <= last_selected_index /\ last_selected_index < Len(images)))
    /\ [][/\ (Len(images') < Len(images) => last_selected_index' = None)
          /\ last'.op \in {"append_images", "handle_drop", "clear_selection"} =>
                /\ last_selected_index' = last_selected_index
                /\ Len(images') >= Len(images)]_vars

\* a drop has rearranged three images while the anchor was on the last one
C25_Witness ==
    /\ last.op = "handle_drop"
    /\ images # last.before
    /\ Len(images) = 3
    /\ last_selected_index = 2

----------------------------------------------------------------------------
(* C26 *)

\* C26: FlipbookApp.undo with nothing to undo, FlipbookApp.redo with nothing
\* to redo and FlipbookApp.delete_selected_images with nothing selected leave
\* the columns and rows values as they are, as they leave the list.
C26_NoOpCommandKeepsGrid ==
    [][(last'.op \in {"app_undo", "app_redo", "app_delete"} /\ ~last'.acted) =>
            /\ images' = images
            /\ columns_input'.value = columns_input.value
            /\ rows_input'.value = rows_input.value]_vars

----------------------------------------------------------------------------
(* C27 *)

\* C27: select_range(i) with the anchor a set selects every index between a
\* and i, removes none that was selected and keeps the anchor, so that
\* successive calls add up spans from the same anchor; without an anchor it
\* does what select_single(i) does; clear_selection empties the selection and
\* keeps the anchor.
C27_RangeAccumulates ==
    [][/\ (last'.op = "select_range" /\ last_selected_index # None) =>
            LET a == last_selected_index
                i == last'.index
            IN  /\ \A j \in 0 .. Len(images) - 1 :
                        ((a <= j /\ j <= i) \/ (i <= j /\ j <= a)) => j \in selected_indices'
                /\ selected_indices \subseteq selected_indices'
                /\ selected_indices' \ selected_indices \subseteq RangeSpan(a, i)
                /\ last_selected_index' = a
       /\ (last'.op = "select_range" /\ last_selected_index = None) =>
            /\ selected_indices' = {last'.index}
            /\ last_selected_index' = last'.index
       /\ last'.op = "clear_selection" =>
            /\ selected_indices' = {}
            /\ last_selected_index' = last_selected_index
       /\ last'.op \in {"select_range", "clear_selection"} =>
            UNCHANGED <<images, history, redo_stack>>]_vars

\* a second range from the anchor in the middle has been added to the first
C27_Witness ==
    /\ last.op = "select_range"
    /\ last_selected_index = 1
    /\ last.index = 2
    /\ selected_indices = {0, 1, 2}

----------------------------------------------------------------------------
(* C28 *)

\* C28: whenever a non-empty list is exported, the first picture being at
\* least 1 x 1 and the slider anywhere in its range, the image produced is at
\* least one pixel wide and one pixel high.
C28_OutputNotEmpty ==
    (Composed /\ PixmapSize(images[1])[1] >= 1 /\ PixmapSize(images[1])[2] >= 1) =>
        /\ last.result.output[1] >= 1
        /\ last.result.output[2] >= 1

====
